---- MODULE Spec2Model ----
(***************************************************************************)
(* RF_Extract (extraction.py): format conversion between S parameters and  *)
(* ABCD matrices, pad de-embedding and RLGC extraction.                    *)
(*                                                                         *)
(* Numbers.  A float or complex value of the program is the exact complex  *)
(* rational (a + b*i)/d, written <<a, b, d>> with d > 0 and gcd(a,b,d) = 1.*)
(* A non-finite IEEE value (inf or nan, what numpy yields for a division   *)
(* by zero instead of raising) is NaN == <<0, 0, 0>>; it is absorbing in   *)
(* every operation.                                                        *)
(*                                                                         *)
(* Arrays.  A 2x2 matrix is <<m00, m01, m10, m11>> (row major).  A trace   *)
(* (an array of shape (N,2,2), or a Python list of 2x2 matrices) is a      *)
(* sequence of such matrices, one per frequency point.                     *)
(***************************************************************************)
EXTENDS Integers, Sequences, FiniteSets, TLC

\* ------------------------------------------------------------------------
\* Bounds of the model
\* ------------------------------------------------------------------------

\* Largest number of frequency points of a trace.
MaxLen == 2

\* ------------------------------------------------------------------------
\* Complex rational arithmetic (numpy complex128 / float64 scalars)
\* ------------------------------------------------------------------------

NaN == <<0, 0, 0>>

IsNaN(x) == x[3] = 0

AbsInt(n) == IF n < 0 THEN -n ELSE n

RECURSIVE GCD(_, _)
GCD(a, b) == IF b = 0 THEN a ELSE GCD(b, a % b)

\* (a + b*i)/d with the common factor g > 0 removed and the sign s of d moved
\* to the numerator.
Reduced(a, b, d, g, s) == <<(s * a) \div g, (s * b) \div g, (s * d) \div g>>

\* The canonical form of (a + b*i)/d, d # 0.
Norm(a, b, d) ==
    Reduced(a, b, d, GCD(GCD(AbsInt(a), AbsInt(b)), AbsInt(d)), IF d < 0 THEN -1 ELSE 1)

Cx(a, b, d) == Norm(a, b, d)
RInt(n) == <<n, 0, 1>>
Zero == <<0, 0, 1>>
One == <<1, 0, 1>>
Two == <<2, 0, 1>>
IsZero(x) == x[3] # 0 /\ x[1] = 0 /\ x[2] = 0

\* x + y over the common denominator x[3] * p = y[3] * q.
AddOver(x, y, p, q) == Norm(x[1] * p + y[1] * q, x[2] * p + y[2] * q, x[3] * p)

CAdd(x, y) ==
    IF IsNaN(x) \/ IsNaN(y) THEN NaN
    ELSE AddOver(x, y, y[3] \div GCD(x[3], y[3]), x[3] \div GCD(x[3], y[3]))

CNeg(x) == IF IsNaN(x) THEN NaN ELSE <<-x[1], -x[2], x[3]>>

CSub(x, y) == CAdd(x, CNeg(y))

\* (a + b*i)/d times (c + e*i)/f.
MulParts(a, b, d, c, e, f) == Norm(a * c - b * e, a * e + b * c, d * f)

\* x * y, with g cancelled between the numerator of x and the denominator of
\* y, and h between the numerator of y and the denominator of x.
MulCancelled(x, y, g, h) ==
    MulParts(x[1] \div g, x[2] \div g, x[3] \div h, y[1] \div h, y[2] \div h, y[3] \div g)

CMul(x, y) ==
    IF IsNaN(x) \/ IsNaN(y) THEN NaN
    ELSE MulCancelled(x, y, GCD(GCD(AbsInt(x[1]), AbsInt(x[2])), y[3]),
                            GCD(GCD(AbsInt(y[1]), AbsInt(y[2])), x[3]))

\* numpy scalar division: a zero divisor gives inf/nan and a RuntimeWarning,
\* never an exception.
CDiv(x, y) ==
    IF IsNaN(x) \/ IsNaN(y) \/ IsZero(y) THEN NaN
    ELSE CMul(x, Norm(y[1] * y[3], -(y[2] * y[3]), y[1] * y[1] + y[2] * y[2]))

CConj(x) == IF IsNaN(x) THEN NaN ELSE <<x[1], -x[2], x[3]>>

\* x.real and x.imag, as real numbers <<n, 0, d>>.
CRe(x) == IF IsNaN(x) THEN NaN ELSE Norm(x[1], 0, x[3])
CIm(x) == IF IsNaN(x) THEN NaN ELSE Norm(x[2], 0, x[3])

\* |x|^2, a real number.
CAbs2(x) == IF IsNaN(x) THEN NaN ELSE Norm(x[1] * x[1] + x[2] * x[2], 0, x[3] * x[3])

\* The integer square root of n >= 0, by bisection.
RECURSIVE RootBetween(_, _, _)
RootBetween(n, lo, hi) ==
    IF lo >= hi THEN lo
    ELSE LET mid == (lo + hi + 1) \div 2
         IN  IF mid <= n \div mid THEN RootBetween(n, mid, hi) ELSE RootBetween(n, lo, mid - 1)

FloorSqrt(n) == IF n = 0 THEN 0 ELSE RootBetween(n, 1, n)
IsSquareInt(n) == \E r \in {FloorSqrt(n)} : r * r = n
\* Defined for perfect squares only.
ISqrt(n) == CHOOSE r \in {FloorSqrt(n)} : r * r = n

\* Whether the real number x has a rational square root.
IsSquare(x) == x[3] # 0 /\ x[2] = 0 /\ x[1] >= 0 /\ IsSquareInt(x[1]) /\ IsSquareInt(x[3])

\* np.sqrt of a real number: nan for a negative number (with a warning); the
\* model's inputs keep the roots it takes rational.
CSqrt(x) ==
    IF IsNaN(x) THEN NaN
    ELSE IF x[2] = 0 /\ x[1] < 0 THEN NaN
    ELSE Norm(ISqrt(x[1]), 0, ISqrt(x[3]))

\* math.pi as the float the program holds: a rational approximation of pi.
Pi == <<22, 0, 7>>

\* ------------------------------------------------------------------------
\* 2x2 matrices
\* ------------------------------------------------------------------------

Mat(a, b, c, d) == <<a, b, c, d>>
Identity == <<One, Zero, Zero, One>>
NaNMat == <<NaN, NaN, NaN, NaN>>
MatHasNaN(M) == \E k \in 1..4 : IsNaN(M[k])
MatFinite(M) == ~MatHasNaN(M)

\* np.dot of two 2x2 matrices.
Dot2(M, N) ==
    << CAdd(CMul(M[1], N[1]), CMul(M[2], N[3])),
       CAdd(CMul(M[1], N[2]), CMul(M[2], N[4])),
       CAdd(CMul(M[3], N[1]), CMul(M[4], N[3])),
       CAdd(CMul(M[3], N[2]), CMul(M[4], N[4])) >>

Det2(M) == CSub(CMul(M[1], M[4]), CMul(M[2], M[3]))

\* la.inv raises LinAlgError("Singular matrix") on an exactly singular matrix.
Singular(M) == MatFinite(M) /\ IsZero(Det2(M))

\* Every entry of M divided by the scalar c.
DivAll(M, c) == [k \in 1..4 |-> CDiv(M[k], c)]

\* la.inv of a non-singular matrix (a matrix holding nan inverts to nan).
Inv2(M) ==
    IF MatHasNaN(M) THEN NaNMat
    ELSE DivAll(<<M[4], CNeg(M[2]), CNeg(M[3]), M[1]>>, Det2(M))

\* sla.sqrtm: the principal square root.  For a 2x2 matrix with
\* s = sqrt(det M) and t = sqrt(tr M + 2 s) it is (M + s I)/t.
SqrtmWith(M, s) ==
    DivAll(<<CAdd(M[1], s), M[2], M[3], CAdd(M[4], s)>>,
           CSqrt(CAdd(CAdd(M[1], M[4]), CMul(Two, s))))

Sqrtm(M) == IF MatHasNaN(M) THEN NaNMat ELSE SqrtmWith(M, CSqrt(Det2(M)))

\* ------------------------------------------------------------------------
\* Format conversions, one frequency point
\* ------------------------------------------------------------------------

\* abcd2s with S12 computed without the determinant factor (A*D - B*C).
abcd2sPointBadS12(mat, Z01, Z02) ==
    LET A == mat[1]  B == mat[2]  C == mat[3]  D == mat[4]
        rt == CSqrt(CMul(CRe(Z01), CRe(Z02)))
        denom == CAdd(CAdd(CMul(A, Z02), B), CAdd(CMul(CMul(C, Z01), Z02), CMul(D, Z01)))
        numS11 == CSub(CSub(CAdd(CMul(A, Z02), B), CMul(CMul(C, CConj(Z01)), Z02)),
                    CMul(D, CConj(Z01)))
        numS12 == CMul(Two, rt)
        numS21 == CMul(Two, rt)
        numS22 == CAdd(CSub(CAdd(CMul(CNeg(A), CConj(Z02)), B),
                         CMul(CMul(C, Z01), CConj(Z02))), CMul(D, Z01))
    IN  DivAll(<<numS11, numS12, numS21, numS22>>, denom)

\* abcd2s, the loop body.
abcd2sPoint(mat, Z01, Z02) ==
    LET A == mat[1]  B == mat[2]  C == mat[3]  D == mat[4]
        rt == CSqrt(CMul(CRe(Z01), CRe(Z02)))
        denom == CAdd(CAdd(CMul(A, Z02), B), CAdd(CMul(CMul(C, Z01), Z02), CMul(D, Z01)))
        numS11 == CSub(CSub(CAdd(CMul(A, Z02), B), CMul(CMul(C, CConj(Z01)), Z02)),
                    CMul(D, CConj(Z01)))
        numS12 == CMul(CMul(Two, CSub(CMul(A, D), CMul(B, C))), rt)
        numS21 == CMul(Two, rt)
        numS22 == CAdd(CSub(CAdd(CMul(CNeg(A), CConj(Z02)), B),
                         CMul(CMul(C, Z01), CConj(Z02))), CMul(D, Z01))
    IN  DivAll(<<numS11, numS12, numS21, numS22>>, denom)

\* abcd2s_alt, the loop body (Z0 = Z01; Z02 is not used).
abcd2s_altPoint(mat, Z01, Z02) ==
    LET A == mat[1]  B == mat[2]  C == mat[3]  D == mat[4]
        Z0 == Z01
        denom == CAdd(CAdd(A, CDiv(B, Z0)), CAdd(CMul(C, Z0), D))
        numS11 == CSub(CSub(CAdd(A, CDiv(B, Z0)), CMul(C, Z0)), D)
        numS12 == CMul(Two, CSub(CMul(A, D), CMul(B, C)))
        numS21 == Two
        numS22 == CAdd(CSub(CAdd(CNeg(A), CDiv(B, Z0)), CMul(C, Z0)), D)
    IN  DivAll(<<numS11, numS12, numS21, numS22>>, denom)

\* sri2abcd, the loop body.
sri2abcdPoint(mat, Z01, Z02) ==
    LET S11 == mat[1]  S12 == mat[2]  S21 == mat[3]  S22 == mat[4]
        denom == CMul(CMul(Two, S21), CSqrt(CMul(CRe(Z01), CRe(Z02))))
        a1 == CAdd(CConj(Z01), CMul(S11, Z01))
        a2 == CAdd(CConj(Z02), CMul(S22, Z02))
        ss == CMul(S12, S21)
        numA == CAdd(CMul(a1, CSub(One, S22)), CMul(ss, Z01))
        numB == CSub(CMul(a1, a2), CMul(CMul(ss, Z01), Z02))
        numC == CSub(CMul(CSub(One, S11), CSub(One, S22)), ss)
        numD == CAdd(CMul(CSub(One, S11), a2), CMul(ss, Z02))
    IN  DivAll(<<numA, numB, numC, numD>>, denom)

\* sri2abcd_alt, the loop body (Z0 = Z01; Z02, R01 and R02 are not used).
sri2abcd_altPoint(mat, Z01, Z02) ==
    LET S11 == mat[1]  S12 == mat[2]  S21 == mat[3]  S22 == mat[4]
        Z0 == Z01
        ss == CMul(S12, S21)
        d2 == CMul(Two, S21)
        A == CDiv(CAdd(CMul(CAdd(One, S11), CSub(One, S22)), ss), d2)
        B == CMul(Z0, CDiv(CSub(CMul(CAdd(One, S11), CAdd(One, S22)), ss), d2))
        C == CDiv(CSub(CMul(CSub(One, S11), CSub(One, S22)), ss), CMul(d2, Z0))
        D == CDiv(CAdd(CMul(CSub(One, S11), CAdd(One, S22)), ss), d2)
    IN  <<A, B, C, D>>

\* ------------------------------------------------------------------------
\* S in dB/degree form
\*
\* 20*log10(m) dB is held as the real number m^2 (so -inf dB, the log of a
\* zero magnitude, is 0), and an angle in degrees as the direction it points
\* to: the Gaussian integer <<a, b, 1>> with gcd(a, b) = 1 whose argument it
\* is.  10**(dB/20) is then sqrt(m^2), and cos, sin of the angle are
\* a/|(a,b)| and b/|(a,b)|: exact, and not the identity (arcsin keeps only
\* the sign of the imaginary part, so recovers angles in [-90, 90] only).
\* ------------------------------------------------------------------------

Direction(a, b) ==
    LET g == GCD(AbsInt(a), AbsInt(b)) IN <<a \div g, b \div g, 1>>

\* 20*np.log10(np.abs(x)).
DbOf(x) == CAbs2(x)

\* np.arcsin(x.imag / np.abs(x)) * 180/math.pi; 0/0 is nan for x = 0.
ArcsinDegOf(x) ==
    IF IsNaN(x) \/ IsZero(x) THEN NaN ELSE Direction(AbsInt(x[1]), x[2])

\* 10**(db/20) * complex(cos(deg*pi/180), sin(deg*pi/180)).
FromDbDeg(db, deg) ==
    IF IsNaN(db) \/ IsNaN(deg) THEN NaN
    ELSE CMul(CSqrt(CDiv(db, CAbs2(deg))), deg)

\* The angle of x in degrees, in (-180, 180], as skrf's Network.s_deg gives it
\* (the angle of 0 is 0).
AngleDegOf(x) ==
    IF IsNaN(x) THEN NaN ELSE IF IsZero(x) THEN One ELSE Direction(x[1], x[2])

\* ------------------------------------------------------------------------
\* Format conversions, whole traces
\* ------------------------------------------------------------------------

\* The default reference impedance of sri2abcd (Z01=50, Z02=50).
Z0Default == <<50, 0, 1>>

\* abcd2s reading the first matrix of the input at every index.
abcd2sStale(abcd_struct, Z01, Z02) ==
    [idx \in 1..Len(abcd_struct) |-> abcd2sPoint(abcd_struct[1], Z01, Z02)]

\* abcd2s: S = zeros((num_freqs,2,2)), filled index by index.
abcd2s(abcd_struct, Z01, Z02) ==
    [idx \in 1..Len(abcd_struct) |-> abcd2sPoint(abcd_struct[idx], Z01, Z02)]

abcd2s_alt(abcd_struct, Z01, Z02) ==
    [idx \in 1..Len(abcd_struct) |-> abcd2s_altPoint(abcd_struct[idx], Z01, Z02)]

sri2abcd(s_struct, Z01, Z02) ==
    [idx \in 1..Len(s_struct) |-> sri2abcdPoint(s_struct[idx], Z01, Z02)]

sri2abcd_alt(s_struct, Z01, Z02) ==
    [idx \in 1..Len(s_struct) |-> sri2abcd_altPoint(s_struct[idx], Z01, Z02)]

\* sdb2sri: the loop runs over sdb_struct and reads sdeg_struct at the same
\* index (both are the s_db and s_deg of one network).
sdb2sri(sdb_struct, sdeg_struct) ==
    [idx \in 1..Len(sdb_struct) |->
        [k \in 1..4 |-> FromDbDeg(sdb_struct[idx][k], sdeg_struct[idx][k])]]

sdb2abcd(sdb_struct, sdeg_struct) ==
    sri2abcd(sdb2sri(sdb_struct, sdeg_struct), Z0Default, Z0Default)

\* sri2sdb returns the pair (Sdb, Sdeg).
sri2sdb(sri_struct) ==
    << [idx \in 1..Len(sri_struct) |-> [k \in 1..4 |-> DbOf(sri_struct[idx][k])]],
       [idx \in 1..Len(sri_struct) |-> [k \in 1..4 |-> ArcsinDegOf(sri_struct[idx][k])]] >>

\* skrf's Network.s_db and Network.s_deg of a network whose S matrices are s.
NetSdb(s) == [idx \in 1..Len(s) |-> [k \in 1..4 |-> DbOf(s[idx][k])]]
NetSdeg(s) == [idx \in 1..Len(s) |-> [k \in 1..4 |-> AngleDegOf(s[idx][k])]]

\* ------------------------------------------------------------------------
\* Pad de-embedding
\* ------------------------------------------------------------------------

\* abcd_L and abcd_2L: sdb2abcd of the s_db and s_deg of a calibration network.
CalAbcd(net) == sdb2abcd(NetSdb(net.s), NetSdeg(net.s))

\* get_pad_abcd, the loop body: PP =(ML^-1 * M2L * ML^-1)^-1, abcd_P its
\* principal square root.
PadSquared(abcd_L_inv, abcd_2L_mat) ==
    Inv2(Dot2(abcd_L_inv, Dot2(abcd_2L_mat, abcd_L_inv)))
PadPoint(abcd_L_mat, abcd_2L_mat) == Sqrtm(PadSquared(Inv2(abcd_L_mat), abcd_2L_mat))

\* What iteration idx of the loop raises: abcd_2L[idx] raises IndexError past
\* the end of abcd_2L, then la.inv raises LinAlgError on a singular matrix
\* (the product ML^-1 * M2L * ML^-1 is singular exactly when M2L is).
PadRaises(abcd_L, abcd_2L, idx) ==
    IF idx > Len(abcd_2L) THEN "IndexError"
    ELSE IF Singular(abcd_L[idx]) \/ Singular(abcd_2L[idx]) THEN "LinAlgError"
    ELSE "none"

\* The first iteration that raises, 0 if none does.
RECURSIVE FirstRaising(_, _, _)
FirstRaising(abcd_L, abcd_2L, idx) ==
    IF idx > Len(abcd_L) THEN 0
    ELSE IF PadRaises(abcd_L, abcd_2L, idx) # "none" THEN idx
    ELSE FirstRaising(abcd_L, abcd_2L, idx + 1)

PadResult(raised_, freq_, abcd_pad_, abcd_pad_inv_, Sri_pad_, SdbSdeg) ==
    [raised |-> raised_, freq |-> freq_, abcd_pad |-> abcd_pad_,
     abcd_pad_inv |-> abcd_pad_inv_, Sri_pad |-> Sri_pad_,
     Sdb_pad |-> SdbSdeg[1], Sdeg_pad |-> SdbSdeg[2]]

\* After the loop: Sri_pad, Sdb_pad and Sdeg_pad are converted from abcd_pad.
PadReturn(freq_, abcd_pad_, z0) ==
    PadResult("none", freq_, abcd_pad_,
              [idx \in DOMAIN abcd_pad_ |-> Inv2(abcd_pad_[idx])],
              abcd2s(abcd_pad_, z0, z0),
              sri2sdb(abcd2s(abcd_pad_, z0, z0)))

\* The loop over abcd_L, which reads abcd_2L at the same index; bad is the
\* first iteration that raises.
PadLoop(freq_, abcd_L, abcd_2L, z0, bad) ==
    IF bad # 0
    THEN PadResult(PadRaises(abcd_L, abcd_2L, bad), <<>>, <<>>, <<>>, <<>>, <<<<>>, <<>>>>)
    ELSE PadReturn(freq_, [idx \in DOMAIN abcd_L |-> PadPoint(abcd_L[idx], abcd_2L[idx])], z0)

PadFrom(freq_, abcd_L, abcd_2L, z0) ==
    PadLoop(freq_, abcd_L, abcd_2L, z0, FirstRaising(abcd_L, abcd_2L, 1))

\* get_pad_abcd for the networks read from the two calibration files: what it
\* raises ("none" if it returns) and what it returns.
get_pad_abcd(net_L, net_2L, z0) ==
    PadFrom(net_L.f, CalAbcd(net_L), CalAbcd(net_2L), z0)

\* A numpy array that is not a trace of 2x2 matrices: its shape and its
\* entries in row-major order.  AsArray is the 2x2 matrix M as such an array.
AsArray(M) == [shape |-> <<2, 2>>, data |-> M]

\* np.dot(Pinv, np.dot(abcd_dut, Pinv)) for the 2x2 matrix Pinv and the whole
\* array abcd_dut of shape (N,2,2).  The inner product has shape (N,2,2), entry
\* [n] = abcd_dut[n] . Pinv; the outer one sums over the last axis of Pinv and
\* the second-to-last axis of that array and has shape (2,N,2):
\* out[i,n,m] = (Pinv . abcd_dut[n] . Pinv)[i,m].
DotPinvTracePinv(Pinv, abcd_dut) ==
    LET N == Len(abcd_dut)
        prod(n) == Dot2(Pinv, Dot2(abcd_dut[n], Pinv))
        i(j) == ((j - 1) \div (2 * N)) + 1
        n(j) == (((j - 1) \div 2) % N) + 1
        m(j) == ((j - 1) % 2) + 1
    IN  [shape |-> <<2, N, 2>>,
         data |-> [j \in 1..(4 * N) |-> prod(n(j))[2 * (i(j) - 1) + m(j)]]]

\* The same product taken with the DUT matrix of one frequency point.
DotPinvPointPinv(Pinv, abcd_dut, idx) ==
    AsArray(Dot2(Pinv, Dot2(abcd_dut[idx], Pinv)))

\* deembed_pads_from_measurement: (abcd_dut_deembedded, Sri_dut, Sdb_dut, Sdeg_dut).
\* The list has one entry per matrix of abcd_pad_inv; Sri_dut is converted from
\* abcd_dut.
DeembedResult(deembedded, Sri, SdbSdeg) ==
    [abcd_dut_deembedded |-> deembedded, Sri_dut |-> Sri,
     Sdb_dut |-> SdbSdeg[1], Sdeg_dut |-> SdbSdeg[2]]

deembed_pads_from_measurement(abcd_pad_inv_, abcd_dut_, z0) ==
    DeembedResult(
        [idx \in 1..Len(abcd_pad_inv_) |-> DotPinvTracePinv(abcd_pad_inv_[idx], abcd_dut_)],
        abcd2s(abcd_dut_, z0, z0),
        sri2sdb(abcd2s(abcd_dut_, z0, z0)))

\* ------------------------------------------------------------------------
\* RLGC extractors
\* ------------------------------------------------------------------------

\* np.arccosh and np.sinh at the arguments the modelled inputs give them:
\* arccosh(1) = 0, arccosh(0) = i*pi/2, sinh(0) = 0, sinh(i*pi/2) = i.
IPiHalf == CMul(Cx(0, 1, 2), Pi)

ArcCosh(x) ==
    CASE IsNaN(x) -> NaN
      [] x = One -> Zero
      [] x = Zero -> IPiHalf

Sinh(x) ==
    CASE IsNaN(x) -> NaN
      [] x = Zero -> Zero
      [] x = IPiHalf -> Cx(0, 1, 1)

\* 1/2/math.pi/f
InvTwoPiF(f) == CDiv(CDiv(CDiv(One, Two), Pi), f)

\* The loop and the vector expressions shared by distributed_rlgc_from_abcd and
\* distributed_rlgc_from_sdb (the traces modelled are as long as freq).  The
\* attenuation, which no caller reads, is left out.
\* The vector expressions after the loop: gz is gamma*Zc and gy is gamma/Zc.
DistributedVectors(freq_, gamma, Zc, b_vec, gz, gy) ==
    [freq |-> freq_,
     R |-> [idx \in DOMAIN gz |-> CRe(gz[idx])],
     L |-> [idx \in DOMAIN gz |-> CMul(InvTwoPiF(freq_[idx]), CIm(gz[idx]))],
     G |-> [idx \in DOMAIN gy |-> CRe(gy[idx])],
     C |-> [idx \in DOMAIN gy |-> CMul(InvTwoPiF(freq_[idx]), CIm(gy[idx]))],
     gamma |-> gamma,
     losstan |-> [idx \in DOMAIN gy |-> CDiv(CRe(gy[idx]), CIm(gy[idx]))],
     Zc |-> Zc,
     b_vec |-> b_vec]

DistributedFromGammaZc(freq_, gamma, Zc, b_vec) ==
    DistributedVectors(freq_, gamma, Zc, b_vec,
                       [idx \in DOMAIN gamma |-> CMul(gamma[idx], Zc[idx])],
                       [idx \in DOMAIN gamma |-> CDiv(gamma[idx], Zc[idx])])

\* Zc = np.sinh(gamma*length_m)/b_vec
DistributedFromGamma(length_m_, freq_, gamma, b_vec) ==
    DistributedFromGammaZc(freq_, gamma,
        [idx \in DOMAIN gamma |-> CDiv(Sinh(CMul(gamma[idx], length_m_)), b_vec[idx])],
        b_vec)

\* The loop (d_vec and b_vec are the D and C entries, gamma is
\* 1/length_m * np.arccosh(d_vec)) and the vector expressions.
DistributedCore(length_m_, freq_, abcd_mat_array) ==
    DistributedFromGamma(length_m_, freq_,
        [idx \in DOMAIN abcd_mat_array |->
            CMul(CDiv(One, length_m_), ArcCosh(abcd_mat_array[idx][4]))],
        [idx \in DOMAIN abcd_mat_array |-> abcd_mat_array[idx][3]])

distributed_rlgc_from_abcd(length_m_, freq_, abcd_mat_array, z0) ==
    DistributedCore(length_m_, freq_, abcd_mat_array)

\* distributed_rlgc_from_sdb: dB/deg to real/imag, then sri2abcd with its
\* default reference impedances, then the shared derivation.
distributed_rlgc_from_sdb(length_m_, freq_, Sdb, Sdeg, z0) ==
    DistributedCore(length_m_, freq_,
                    sri2abcd(sdb2sri(Sdb, Sdeg), Z0Default, Z0Default))

\* skrf's Network.z and Network.y of a network of real port impedance z0:
\* Z = z0 (I - S)^-1 (I + S), Y = (1/z0) (I + S)^-1 (I - S).  The inversion
\* raises LinAlgError on a singular matrix.
IMinus(S) == <<CSub(One, S[1]), CNeg(S[2]), CNeg(S[3]), CSub(One, S[4])>>
IPlus(S) == <<CAdd(One, S[1]), S[2], S[3], CAdd(One, S[4])>>
Scale(c, M) == [k \in 1..4 |-> CMul(c, M[k])]
NetZ(net) == [idx \in 1..Len(net.s) |->
                 Scale(net.z0, Dot2(Inv2(IMinus(net.s[idx])), IPlus(net.s[idx])))]
NetY(net) == [idx \in 1..Len(net.s) |->
                 Scale(CDiv(One, net.z0), Dot2(Inv2(IPlus(net.s[idx])), IMinus(net.s[idx])))]
NetSingular(net) ==
    \E idx \in 1..Len(net.s) : Singular(IMinus(net.s[idx])) \/ Singular(IPlus(net.s[idx]))

\* lumped_rlgc_from_Network (the traces modelled are as long as net.f).
\* Zdiff = z0*(Z11 - Z12 - Z21 + Z22) and Ycomm = Y11 + Y12 + Y21 + Y22.
LumpedZdiff(z0, Z) ==
    [idx \in DOMAIN Z |->
        CMul(z0, CAdd(CSub(CSub(Z[idx][1], Z[idx][2]), Z[idx][3]), Z[idx][4]))]
LumpedYcomm(Y) ==
    [idx \in DOMAIN Y |-> CAdd(CAdd(CAdd(Y[idx][1], Y[idx][2]), Y[idx][3]), Y[idx][4])]

LumpedVectors(f, Zdiff, Ycomm) ==
    [freq |-> f,
     R |-> [idx \in DOMAIN Zdiff |-> CRe(Zdiff[idx])],
     L |-> [idx \in DOMAIN Zdiff |-> CMul(InvTwoPiF(f[idx]), CIm(Zdiff[idx]))],
     G |-> [idx \in DOMAIN Ycomm |-> CRe(Ycomm[idx])],
     C |-> [idx \in DOMAIN Ycomm |-> CMul(InvTwoPiF(f[idx]), CIm(Ycomm[idx]))],
     Zdiff |-> Zdiff,
     Ycomm |-> Ycomm]

lumped_rlgc_from_Network(net, z0) ==
    LumpedVectors(net.f, LumpedZdiff(z0, NetZ(net)), LumpedYcomm(NetY(net)))

\* The chain with an else branch that falls back to the default method.
SelectedBranchWithFallback(m) ==
    CASE m = "distributed" -> "distributed"
      [] m = "lumped" -> "lumped"
      [] m = "distributed_abcd" -> "distributed_abcd"
      [] m = "distributed_ri" -> "distributed_ri"
      [] OTHER -> "distributed"

\* The branch the if/elif chain of extract_rlcg_from_measurement takes for a
\* method; there is no else branch.
SelectedBranch(m) ==
    CASE m = "distributed" -> "distributed"
      [] m = "lumped" -> "lumped"
      [] m = "distributed_abcd" -> "distributed_abcd"
      [] m = "distributed_ri" -> "distributed_ri"
      [] OTHER -> "none"

\* ------------------------------------------------------------------------
\* State
\* ------------------------------------------------------------------------

VARIABLES
    pc,          \* where the modelled call stands
    error,       \* the exception the call raised, "none" if none
    conv_Z,      \* <<Z01, Z02>> given to the conversions
    conv_orig,   \* the trace the conversions started from
    conv_twin0,  \* a second input, equal to conv_orig except at one index
    conv_cur,    \* conv_orig after the conversions of conv_path
    conv_twin,   \* conv_twin0 after the same conversions
    conv_path,   \* the conversions applied so far, in order
    \* extract_rlcg_from_measurement: its parameters ...
    freq, length_m, abcd_pad_inv, abcd_dut, z0_probe, method, skip_deembed,
    \* ... and its locals (<<>> while unbound)
    abcd_dut_deembedded, Sri_dut, Sdb_dut, Sdeg_dut,
    rlgc,        \* the locals freq, R, L, G, C bound by a branch
    called,      \* the extractor the call invoked, its arguments and its result
    returned,    \* what the call returned to its caller
    \* extract_rlgc: the networks of the two calibration files, and what
    \* get_pad_abcd returned besides freq and abcd_pad_inv
    net_pad_L, net_pad_2L, abcd_pad, Sri_pad, Sdb_pad, Sdeg_pad,
    \* main: the --skip_deembed flag of the command line
    args_skip_deembed,
    \* extract_rlgc: the files glob returned, how many of them the loop has
    \* taken, and the accumulators
    file_list, file_idx,
    freq_mat, R_mat, L_mat, G_mat, C_mat, name_vec, length_vec, width_vec,
    rlgc_csv,      \* the per-structure files write_rlgc wrote, in order
    aggregate_csv, \* the files write_data wrote, by name
    extract_ret    \* the tuple extract_rlgc returned (<<>> before it returns)

convVars == <<conv_Z, conv_orig, conv_twin0, conv_cur, conv_twin, conv_path>>

argVars == <<freq, length_m, abcd_pad_inv, abcd_dut, z0_probe, method, skip_deembed>>

localVars == <<abcd_dut_deembedded, Sri_dut, Sdb_dut, Sdeg_dut, rlgc, called, returned>>

padVars == <<net_pad_L, net_pad_2L, abcd_pad, Sri_pad, Sdb_pad, Sdeg_pad>>

accVars == <<freq_mat, R_mat, L_mat, G_mat, C_mat, name_vec, length_vec, width_vec>>

batchVars == <<args_skip_deembed, file_list, file_idx, accVars, rlgc_csv, aggregate_csv,
               extract_ret>>

vars == <<pc, error, convVars, padVars, argVars, localVars, padVars, batchVars>>

\* ------------------------------------------------------------------------
\* Inputs of the conversion runs
\* ------------------------------------------------------------------------

\* A quarter-wave line of characteristic impedance 100 Ohm seen from 50 Ohm.
SQuarter == <<Cx(3, 0, 5), Cx(0, -4, 5), Cx(0, -4, 5), Cx(3, 0, 5)>>
\* A shunt admittance of 1/50 S seen from 50 Ohm.
SShunt == <<Cx(-1, 0, 3), Cx(2, 0, 3), Cx(2, 0, 3), Cx(-1, 0, 3)>>
\* A non-reciprocal network.
SNonRecip == <<Cx(1, 0, 2), Cx(1, 0, 4), Cx(1, 0, 2), Cx(0, 1, 2)>>
\* No transmission: S21 = 0.
SOpen == <<One, Zero, Zero, One>>

SCands == {SQuarter, SShunt, SNonRecip, SOpen}

\* ABCD of a quarter-wave line of 2 Ohm, of a series 1 Ohm, of a series -2 Ohm
\* (the denominator of abcd2s is zero at 1 Ohm), and of a non-reciprocal network.
AQuarter == <<Zero, Cx(0, 2, 1), Cx(0, 1, 2), Zero>>
ASeries == <<One, One, Zero, One>>
ANegSeries == <<One, RInt(-2), Zero, One>>
ANonRecip == <<Two, Zero, Zero, One>>

ACands == {AQuarter, ASeries, ANegSeries, ANonRecip}

\* Reference impedance pairs: equal real, unequal real, complex, zero, and one
\* negative resistance.
ZPairs ==
    { <<One, One>>, <<One, RInt(4)>>, <<Cx(1, 1, 1), Cx(4, -2, 1)>>,
      <<Zero, Zero>>, <<RInt(-1), One>> }

Traces(cands) == UNION { [1..n -> cands] : n \in 1..MaxLen }

SriData(t) == [fmt |-> "sri", m |-> t, deg |-> <<>>]
AbcdData(t) == [fmt |-> "abcd", m |-> t, deg |-> <<>>]
\* The s_db and s_deg of a network read from a file whose S matrices are t.
SdbData(t) == [fmt |-> "sdb", m |-> NetSdb(t), deg |-> NetSdeg(t)]

\* The pair (Sdb, Sdeg) that sri2sdb returns.
SdbPair(pair) == [fmt |-> "sdb", m |-> pair[1], deg |-> pair[2]]

\* t with the matrix at index k replaced by alt (t itself for k = 0).
Vary(t, k, alt) == [i \in 1..Len(t) |-> IF i = k THEN alt ELSE t[i]]

ConvInit ==
    /\ conv_Z \in ZPairs
    /\ conv_path = <<>>
    /\ \E f \in {"sri", "abcd", "sdb"} :
       \E t \in Traces(IF f = "abcd" THEN ACands ELSE SCands) :
       \E k \in 0..Len(t) :
          LET alt == IF f = "abcd" THEN ASeries ELSE SShunt
              u == Vary(t, k, alt)
          IN  /\ conv_orig = (IF f = "sri" THEN SriData(t)
                              ELSE IF f = "abcd" THEN AbcdData(t) ELSE SdbData(t))
              /\ conv_twin0 = (IF f = "sri" THEN SriData(u)
                               ELSE IF f = "abcd" THEN AbcdData(u) ELSE SdbData(u))
    /\ conv_cur = conv_orig
    /\ conv_twin = conv_twin0

ConvIdle ==
    /\ conv_Z = <<Z0Default, Z0Default>>
    /\ conv_path = <<>>
    /\ conv_orig = SriData(<<>>)
    /\ conv_twin0 = conv_orig
    /\ conv_cur = conv_orig
    /\ conv_twin = conv_orig

\* ------------------------------------------------------------------------
\* extract_rlcg_from_measurement: inputs
\* ------------------------------------------------------------------------

\* The through connection: S11 = S22 = 0, S21 = S12 = 1 (ABCD is the identity).
SThrough == <<Zero, One, One, Zero>>
\* A network whose ABCD matrix has D = 0 and a real C entry.
SRealC == <<Cx(-5, 0, 3), Cx(4, 0, 3), Cx(4, 0, 3), Cx(-5, 0, 3)>>

\* The DUT at one frequency point, as its S matrix at the probe impedance.
DutCands == {SQuarter, SShunt, SThrough, SRealC}

\* The inverse of the pad at one frequency point: no pad, or a series 10 Ohm.
PadInvCands == {Identity, <<One, RInt(-10), Zero, One>>}

Z0Cands == {RInt(50), RInt(25)}

\* The method strings the command line accepts (main's choices), the one more
\* the if/elif chain tests for, and one neither knows.
CliMethods == {"distributed", "lumped", "distributed_abcd", "distributed_sri"}
MethodCands == CliMethods \cup {"distributed_ri", "unknown"}

\* n frequencies, 1 Hz apart.
FreqVec(n) == [idx \in 1..n |-> RInt(idx)]

Unbound == <<>>
NoRlgc == [bound |-> FALSE, freq |-> <<>>, R |-> <<>>, L |-> <<>>, G |-> <<>>, C |-> <<>>]
Rlgc(out) == [bound |-> TRUE, freq |-> out.freq, R |-> out.R, L |-> out.L,
              G |-> out.G, C |-> out.C]
NoCall == [fn |-> "none", args |-> <<>>, out |-> <<>>, raised |-> "none"]

ExtractInit ==
    /\ method \in MethodCands
    /\ skip_deembed \in BOOLEAN
    /\ z0_probe \in Z0Cands
    /\ length_m = Cx(1, 0, 2)
    /\ \E n \in 1..MaxLen :
          /\ freq = FreqVec(n)
          /\ abcd_pad_inv \in [1..n -> PadInvCands]
          /\ \E s \in [1..n -> DutCands] : abcd_dut = sri2abcd(s, z0_probe, z0_probe)
    /\ abcd_dut_deembedded = Unbound
    /\ Sri_dut = Unbound
    /\ Sdb_dut = Unbound
    /\ Sdeg_dut = Unbound
    /\ rlgc = NoRlgc
    /\ called = NoCall
    /\ returned = NoRlgc

ExtractIdle ==
    /\ method = "distributed"
    /\ skip_deembed = FALSE
    /\ z0_probe = Z0Default
    /\ length_m = One
    /\ freq = <<>>
    /\ abcd_pad_inv = <<>>
    /\ abcd_dut = <<>>
    /\ abcd_dut_deembedded = Unbound
    /\ Sri_dut = Unbound
    /\ Sdb_dut = Unbound
    /\ Sdeg_dut = Unbound
    /\ rlgc = NoRlgc
    /\ called = NoCall
    /\ returned = NoRlgc

\* No calibration files are read.
PadIdle ==
    /\ net_pad_L = [f |-> <<>>, s |-> <<>>]
    /\ net_pad_2L = [f |-> <<>>, s |-> <<>>]
    /\ abcd_pad = Unbound
    /\ Sri_pad = Unbound
    /\ Sdb_pad = Unbound
    /\ Sdeg_pad = Unbound

\* No batch is run: no file is listed and nothing is accumulated or written.
BatchIdle ==
    /\ args_skip_deembed = FALSE
    /\ file_list = <<>>
    /\ file_idx = 0
    /\ freq_mat = <<>>
    /\ R_mat = <<>>
    /\ L_mat = <<>>
    /\ G_mat = <<>>
    /\ C_mat = <<>>
    /\ name_vec = <<>>
    /\ length_vec = <<>>
    /\ width_vec = <<>>
    /\ rlgc_csv = <<>>
    /\ aggregate_csv = <<>>
    /\ extract_ret = <<>>

\* ------------------------------------------------------------------------
\* extract_rlcg_from_measurement: steps
\* ------------------------------------------------------------------------

\* if not skip_deembed: the four locals come from deembed_pads_from_measurement.
Deembed ==
    /\ pc = "entry"
    /\ ~skip_deembed
    /\ \E r \in {deembed_pads_from_measurement(abcd_pad_inv, abcd_dut, z0_probe)} :
          /\ abcd_dut_deembedded' = r.abcd_dut_deembedded
          /\ Sri_dut' = r.Sri_dut
          /\ Sdb_dut' = r.Sdb_dut
          /\ Sdeg_dut' = r.Sdeg_dut
    /\ pc' = "dispatch"
    /\ UNCHANGED <<error, convVars, batchVars, padVars, argVars, rlgc, called, returned>>

\* else: Sri_dut, Sdb_dut and Sdeg_dut are converted from abcd_dut.
SkipDeembed ==
    /\ pc = "entry"
    /\ skip_deembed
    /\ Sri_dut' = abcd2s(abcd_dut, z0_probe, z0_probe)
    /\ \E SdbSdeg \in {sri2sdb(Sri_dut')} :
          /\ Sdb_dut' = SdbSdeg[1]
          /\ Sdeg_dut' = SdbSdeg[2]
    /\ pc' = "dispatch"
    /\ UNCHANGED <<error, convVars, batchVars, padVars, argVars, abcd_dut_deembedded, rlgc, called, returned>>

\* if method == "distributed"
CallDistributed ==
    /\ pc = "dispatch"
    /\ SelectedBranch(method) = "distributed"
    /\ \E out \in {distributed_rlgc_from_sdb(length_m, freq, Sdb_dut, Sdeg_dut, z0_probe)} :
          /\ called' = [fn |-> "distributed_rlgc_from_sdb",
                        args |-> <<length_m, freq, Sdb_dut, Sdeg_dut, z0_probe>>,
                        out |-> out, raised |-> "none"]
          /\ rlgc' = Rlgc(out)
    /\ pc' = "return"
    /\ UNCHANGED <<error, convVars, batchVars, padVars, argVars, abcd_dut_deembedded, Sri_dut, Sdb_dut,
                   Sdeg_dut, returned>>

\* elif method == "lumped": a network is built from Sri_dut (its frequencies
\* are handed over in GHz, so its f is freq); reading its Z and Y raises
\* LinAlgError when they do not exist.
CallLumped ==
    /\ pc = "dispatch"
    /\ SelectedBranch(method) = "lumped"
    /\ \E net_dut \in {[f |-> freq, s |-> Sri_dut, z0 |-> z0_probe]} :
          IF NetSingular(net_dut)
          THEN /\ called' = [fn |-> "lumped_rlgc_from_Network",
                             args |-> <<net_dut, z0_probe>>,
                             out |-> <<>>, raised |-> "LinAlgError"]
               /\ error' = "LinAlgError"
               /\ pc' = "raised"
               /\ UNCHANGED rlgc
          ELSE /\ \E out \in {lumped_rlgc_from_Network(net_dut, z0_probe)} :
                     /\ called' = [fn |-> "lumped_rlgc_from_Network",
                                   args |-> <<net_dut, z0_probe>>,
                                   out |-> out, raised |-> "none"]
                     /\ rlgc' = Rlgc(out)
               /\ pc' = "return"
               /\ UNCHANGED error
    /\ UNCHANGED <<convVars, batchVars, padVars, argVars, abcd_dut_deembedded, Sri_dut, Sdb_dut, Sdeg_dut,
                   returned>>

\* elif method == "distributed_abcd"
CallDistributedAbcd ==
    /\ pc = "dispatch"
    /\ SelectedBranch(method) = "distributed_abcd"
    /\ \E out \in {distributed_rlgc_from_abcd(length_m, freq, abcd_dut, z0_probe)} :
          /\ called' = [fn |-> "distributed_rlgc_from_abcd",
                        args |-> <<length_m, freq, abcd_dut, z0_probe>>,
                        out |-> out, raised |-> "none"]
          /\ rlgc' = Rlgc(out)
    /\ pc' = "return"
    /\ UNCHANGED <<error, convVars, batchVars, padVars, argVars, abcd_dut_deembedded, Sri_dut, Sdb_dut,
                   Sdeg_dut, returned>>

\* elif method == "distributed_ri": distributed_rlgc_from_sdb is called with
\* four arguments, so its Sdeg is the scalar z0_probe; the first Sdeg[idx] of
\* its loop raises TypeError (the traces modelled are not empty).
CallDistributedRi ==
    /\ pc = "dispatch"
    /\ SelectedBranch(method) = "distributed_ri"
    /\ called' = [fn |-> "distributed_rlgc_from_sdb",
                  args |-> <<length_m, freq, Sri_dut, z0_probe>>,
                  out |-> <<>>, raised |-> "TypeError"]
    /\ error' = "TypeError"
    /\ pc' = "raised"
    /\ UNCHANGED <<convVars, batchVars, padVars, argVars, abcd_dut_deembedded, Sri_dut, Sdb_dut, Sdeg_dut,
                   rlgc, returned>>

\* No test of the chain matches: control reaches the return statement with
\* nothing bound.
NoBranch ==
    /\ pc = "dispatch"
    /\ SelectedBranch(method) = "none"
    /\ pc' = "return"
    /\ UNCHANGED <<error, convVars, batchVars, padVars, argVars, localVars>>

\* return (freq, R, L, G, C): reading the unbound local R raises
\* UnboundLocalError.
Return ==
    /\ pc = "return"
    /\ IF rlgc.bound
       THEN /\ returned' = rlgc
            /\ pc' = "done"
            /\ UNCHANGED error
       ELSE /\ error' = "UnboundLocalError"
            /\ pc' = "raised"
            /\ UNCHANGED returned
    /\ UNCHANGED <<convVars, batchVars, padVars, argVars, abcd_dut_deembedded, Sri_dut, Sdb_dut, Sdeg_dut,
                   rlgc, called>>

Init == pc = "entry" /\ error = "none" /\ ExtractInit /\ ConvIdle /\ PadIdle /\ BatchIdle

Next ==
    \/ Deembed
    \/ SkipDeembed
    \/ CallDistributed
    \/ CallLumped
    \/ CallDistributedAbcd
    \/ CallDistributedRi
    \/ NoBranch
    \/ Return

Spec == Init /\ [][Next]_vars

\* ------------------------------------------------------------------------
\* extract_rlgc: pad extraction from the calibration files, then the
\* de-embedding step of extract_rlcg_from_measurement
\* ------------------------------------------------------------------------

\* ABCD of a series 50 Ohm and of a quarter-wave line of 50 Ohm.
ASeries50 == <<One, RInt(50), Zero, One>>
AQuarter50 == <<Zero, Cx(0, 50, 1), Cx(0, 1, 50), Zero>>
\* ABCD of an isolator (S21 = 1, the other entries 0, at 50 Ohm): singular.
AIsolator == <<Cx(1, 0, 2), RInt(25), Cx(1, 0, 100), Cx(1, 0, 2)>>

\* The pad and the line of length L at one frequency point.
PadCands == {Identity, ASeries50}
LineCands == {Identity, AQuarter50}

\* The L structure (pad, line, pad) and the 2L structure (pad, line, line,
\* pad) at one frequency point, as <<ABCD of L, ABCD of 2L>>.
CalPoint(P, T) == <<Dot2(P, Dot2(T, P)), Dot2(P, Dot2(T, Dot2(T, P)))>>

CalCands ==
    {CalPoint(P, T) : P \in PadCands, T \in LineCands} \cup {<<AIsolator, AIsolator>>}

\* The network a calibration file of n points holds: the S matrices, at 50 Ohm,
\* of the structures whose ABCD matrices are abcd.
CalNetwork(n, abcd) ==
    [f |-> FreqVec(n), s |-> abcd2s([idx \in 1..n |-> abcd[idx]], Z0Default, Z0Default)]

MaxOf(a, b) == IF a >= b THEN a ELSE b

\* The DUT trace in SpecPad, as sdb2abcd returned it.
PadDutCands == {ASeries50, AQuarter50}

\* The three files need not hold the same number of frequency points.
PadInit ==
    /\ method = "distributed"
    /\ skip_deembed = FALSE
    /\ z0_probe \in Z0Cands
    /\ length_m = Cx(1, 0, 2)
    /\ \E nL \in 1..MaxLen, n2L \in 1..MaxLen :
       \E cal \in [1..MaxOf(nL, n2L) -> CalCands] :
          /\ net_pad_L = CalNetwork(nL, [idx \in 1..nL |-> cal[idx][1]])
          /\ net_pad_2L = CalNetwork(n2L, [idx \in 1..n2L |-> cal[idx][2]])
    /\ abcd_dut \in Traces(PadDutCands)
    /\ freq = Unbound
    /\ abcd_pad_inv = Unbound
    /\ abcd_pad = Unbound
    /\ Sri_pad = Unbound
    /\ Sdb_pad = Unbound
    /\ Sdeg_pad = Unbound
    /\ abcd_dut_deembedded = Unbound
    /\ Sri_dut = Unbound
    /\ Sdb_dut = Unbound
    /\ Sdeg_dut = Unbound
    /\ rlgc = NoRlgc
    /\ called = NoCall
    /\ returned = NoRlgc

\* extract_rlgc's call of get_pad_abcd; an exception of it ends extract_rlgc,
\* otherwise extract_rlcg_from_measurement is entered with its freq and
\* abcd_pad_inv.
GetPadAbcd ==
    /\ pc = "get_pad"
    /\ \E r \in {get_pad_abcd(net_pad_L, net_pad_2L, z0_probe)} :
          IF r.raised # "none"
          THEN /\ error' = r.raised
               /\ pc' = "raised"
               /\ UNCHANGED <<freq, abcd_pad_inv, abcd_pad, Sri_pad, Sdb_pad, Sdeg_pad>>
          ELSE /\ freq' = r.freq
               /\ abcd_pad' = r.abcd_pad
               /\ abcd_pad_inv' = r.abcd_pad_inv
               /\ Sri_pad' = r.Sri_pad
               /\ Sdb_pad' = r.Sdb_pad
               /\ Sdeg_pad' = r.Sdeg_pad
               /\ pc' = "entry"
               /\ UNCHANGED error
    /\ UNCHANGED <<convVars, batchVars, net_pad_L, net_pad_2L, length_m, abcd_dut, z0_probe, method,
                   skip_deembed, localVars>>

InitPad == pc = "get_pad" /\ error = "none" /\ PadInit /\ ConvIdle /\ BatchIdle

NextPad ==
    \/ GetPadAbcd
    \/ Deembed

SpecPad == InitPad /\ [][NextPad]_vars

\* ------------------------------------------------------------------------
\* Claims about extract_rlcg_from_measurement (checked under Spec)
\* ------------------------------------------------------------------------

\* The method strings the if/elif chain compares method with.
ChainMethods == {"distributed", "lumped", "distributed_abcd", "distributed_ri"}

\* A method neither the command line nor the chain knows.
UnsupportedMethod == method \notin (CliMethods \cup ChainMethods)

MatchingExtractor(m) ==
    CASE m = "distributed" -> "distributed_rlgc_from_sdb"
      [] m = "distributed_abcd" -> "distributed_rlgc_from_abcd"
      [] m = "distributed_sri" -> "distributed_rlgc_from_sri"
      [] m = "lumped" -> "lumped_rlgc_from_Network"

ExtractorArity(fn) ==
    CASE fn = "distributed_rlgc_from_sdb" -> 5
      [] fn = "distributed_rlgc_from_abcd" -> 4
      [] fn = "distributed_rlgc_from_sri" -> 4
      [] fn = "lumped_rlgc_from_Network" -> 2

\* C2: for each method the command line accepts, the call that has ended
\* called the matching extractor with that extractor's argument list and
\* returned the (freq, R, L, G, C) it produced (or raised what it raised).
C2_SelectsMatchingExtractor ==
    (method \in CliMethods /\ pc \in {"done", "raised"}) =>
        /\ called.fn = MatchingExtractor(method)
        /\ Len(called.args) = ExtractorArity(MatchingExtractor(method))
        /\ called.raised = "none" => (pc = "done" /\ returned = Rlgc(called.out))
        /\ called.raised # "none" => (pc = "raised" /\ error = called.raised)

\* C3: de-embedding returns one 2x2 matrix per frequency point, the one at
\* index i being P_inv[i] * M_dut[i] * P_inv[i].
C3_OneMatrixPerPoint ==
    (pc # "entry" /\ ~skip_deembed) =>
        /\ Len(abcd_dut_deembedded) = Len(abcd_dut)
        /\ \A i \in DOMAIN abcd_dut_deembedded :
              abcd_dut_deembedded[i] = DotPinvPointPinv(abcd_pad_inv[i], abcd_dut, i)

\* The de-embedded network P_inv * M_dut * P_inv, as ABCD and as S.
DeembeddedAbcd ==
    [i \in DOMAIN abcd_dut |-> Dot2(abcd_pad_inv[i], Dot2(abcd_dut[i], abcd_pad_inv[i]))]
DeembeddedSri == abcd2s(DeembeddedAbcd, z0_probe, z0_probe)

\* The network among the arguments of the extractor called.
NetworkGiven ==
    CASE called.fn = "distributed_rlgc_from_sdb" ->
             [fmt |-> "sdb", m |-> called.args[3], deg |-> called.args[4]]
      [] called.fn = "distributed_rlgc_from_abcd" -> AbcdData(called.args[3])
      [] called.fn = "lumped_rlgc_from_Network" -> SriData(called.args[1].s)

\* The de-embedded network in the form the extractor called takes.
NetworkDeembedded ==
    CASE called.fn = "distributed_rlgc_from_sdb" -> SdbPair(sri2sdb(DeembeddedSri))
      [] called.fn = "distributed_rlgc_from_abcd" -> AbcdData(DeembeddedAbcd)
      [] called.fn = "lumped_rlgc_from_Network" -> SriData(DeembeddedSri)

\* C4: when de-embedding is not skipped, the extractor is given the
\* de-embedded network, whatever the method.
C4_ExtractorGetsDeembedded ==
    (~skip_deembed /\ method \in {"distributed", "distributed_abcd", "lumped"}
        /\ called.fn # "none") =>
        NetworkGiven = NetworkDeembedded

\* A distributed extractor was called and returned.
DistributedCalled ==
    /\ called.fn \in {"distributed_rlgc_from_sdb", "distributed_rlgc_from_abcd"}
    /\ called.raised = "none"

\* A denominator of the derivation is zero at index i: Bc, Zc or Im(gamma/Zc).
ZeroDenominatorAt(out, i) ==
    \/ IsZero(out.b_vec[i])
    \/ IsZero(out.Zc[i])
    \/ IsZero(CIm(CDiv(out.gamma[i], out.Zc[i])))

\* C7: a distributed extractor that meets a zero denominator at some
\* frequency point fails with a degenerate-structure error and no R, L, G, C
\* are produced or returned.
C7_DegenerateRaises ==
    (DistributedCalled /\ \E i \in DOMAIN called.out.b_vec : ZeroDenominatorAt(called.out, i)) =>
        /\ error = "DegenerateStructureError"
        /\ ~rlgc.bound
        /\ ~returned.bound

\* ------------------------------------------------------------------------
\* Claims about pad extraction and de-embedding (checked under SpecPad)
\* ------------------------------------------------------------------------

\* The L and 2L calibration traces and the DUT trace have the same length.
SameLengths ==
    /\ Len(net_pad_L.s) = Len(net_pad_2L.s)
    /\ Len(net_pad_L.s) = Len(abcd_dut)

\* C5: with calibration traces of different lengths pad extraction fails with
\* a dimension-mismatch error (a singular matrix met first may raise its own
\* error), and with traces not all of the same length de-embedding never
\* returns.
C5_MismatchRaises ==
    /\ (Len(net_pad_L.s) # Len(net_pad_2L.s) /\ pc # "get_pad") =>
           (pc = "raised" /\ error \in {"DimensionMismatchError", "LinAlgError"})
    /\ ~SameLengths => pc # "dispatch"

\* The 2L calibration matrix is the L calibration matrix times itself at
\* every frequency point, and the DUT trace is as long as the calibration
\* traces.
IdentityPadInput ==
    /\ SameLengths
    /\ \A i \in DOMAIN net_pad_L.s :
          CalAbcd(net_pad_2L)[i] = Dot2(CalAbcd(net_pad_L)[i], CalAbcd(net_pad_L)[i])

\* C9: with an identity pad, get_pad_abcd returns the identity as pad ABCD and
\* as pad inverse at every frequency, and de-embedding returns the DUT trace
\* unchanged: one 2x2 matrix per frequency point, equal to the DUT's.
C9_IdentityPadNoOp ==
    (IdentityPadInput /\ pc = "dispatch") =>
        /\ abcd_pad = [i \in DOMAIN net_pad_L.s |-> Identity]
        /\ abcd_pad_inv = abcd_pad
        /\ Len(abcd_dut_deembedded) = Len(abcd_dut)
        /\ \A i \in DOMAIN abcd_dut : abcd_dut_deembedded[i] = AsArray(abcd_dut[i])

\* ------------------------------------------------------------------------
\* The conversions as calls
\* ------------------------------------------------------------------------

\* What one conversion returns for the data d.
Converted(op, d, Z) ==
    CASE op = "sri2abcd"     -> AbcdData(sri2abcd(d.m, Z[1], Z[2]))
      [] op = "sri2abcd_alt" -> AbcdData(sri2abcd_alt(d.m, Z[1], Z[2]))
      [] op = "abcd2s"       -> SriData(abcd2s(d.m, Z[1], Z[2]))
      [] op = "abcd2s_alt"   -> SriData(abcd2s_alt(d.m, Z[1], Z[2]))
      [] op = "sdb2sri"      -> SriData(sdb2sri(d.m, d.deg))
      [] op = "sdb2abcd"     -> AbcdData(sdb2abcd(d.m, d.deg))
      [] op = "sri2sdb"      -> SdbPair(sri2sdb(d.m))

\* The format a conversion takes.
InputFmt(op) ==
    CASE op \in {"sri2abcd", "sri2abcd_alt", "sri2sdb"} -> "sri"
      [] op \in {"abcd2s", "abcd2s_alt"} -> "abcd"
      [] op \in {"sdb2sri", "sdb2abcd"} -> "sdb"

\* A call of conversion op on the current data (and on its twin); none of the
\* conversions raises.  At most two conversions are chained.
Convert(op) ==
    /\ pc = "conv"
    /\ Len(conv_path) < 2
    /\ conv_cur.fmt = InputFmt(op)
    /\ conv_cur' = Converted(op, conv_cur, conv_Z)
    /\ conv_twin' = Converted(op, conv_twin, conv_Z)
    /\ conv_path' = Append(conv_path, op)
    /\ UNCHANGED <<pc, error, conv_Z, conv_orig, conv_twin0, argVars, localVars, padVars,
                   batchVars>>

Do_sri2abcd == Convert("sri2abcd")
Do_sri2abcd_alt == Convert("sri2abcd_alt")
Do_abcd2s == Convert("abcd2s")
Do_abcd2s_alt == Convert("abcd2s_alt")
Do_sdb2sri == Convert("sdb2sri")
Do_sdb2abcd == Convert("sdb2abcd")
Do_sri2sdb == Convert("sri2sdb")

InitConv ==
    pc = "conv" /\ error = "none" /\ ConvInit /\ ExtractIdle /\ PadIdle /\ BatchIdle

NextConv ==
    \/ Do_sri2abcd
    \/ Do_sri2abcd_alt
    \/ Do_abcd2s
    \/ Do_abcd2s_alt
    \/ Do_sdb2sri
    \/ Do_sdb2abcd
    \/ Do_sri2sdb

SpecConv == InitConv /\ [][NextConv]_vars

\* ------------------------------------------------------------------------
\* Claims about the format conversions (checked under SpecConv)
\* ------------------------------------------------------------------------

\* The data of one frequency point.
PointOf(d, i) == IF d.fmt = "sdb" THEN <<d.m[i], d.deg[i]>> ELSE <<d.m[i]>>

\* i is an index of every array of d.
HasPoint(d, i) == i \in DOMAIN d.m /\ (d.fmt = "sdb" => i \in DOMAIN d.deg)

\* d holds exactly n matrices (in each of its arrays).
HasLen(d, n) == Len(d.m) = n /\ (d.fmt = "sdb" => Len(d.deg) = n)

\* The first conversion applied was S (real/imag) to ABCD, on an S trace.
StoAbcdCalled ==
    /\ conv_orig.fmt = "sri"
    /\ conv_path # <<>>
    /\ conv_path[1] \in {"sri2abcd", "sri2abcd_alt"}

\* The input the claim calls singular: S21 = 0 at some point, or a reference
\* resistance that is not positive.
SingularInput ==
    \/ \E i \in DOMAIN conv_orig.m : IsZero(conv_orig.m[i][3])
    \/ CRe(conv_Z[1])[1] <= 0
    \/ CRe(conv_Z[2])[1] <= 0

\* C6: sri2abcd and sri2abcd_alt fail with a singular-network error when S21 is
\* zero at some frequency point or a reference resistance is not positive, and
\* return no ABCD trace in that case.
C6_SingularRaises ==
    (StoAbcdCalled /\ SingularInput) => error = "SingularNetworkError"

\* The conversions of C8 have run: S to ABCD and back with the same reference
\* impedances, of positive real part, on an S trace with S21 # 0 everywhere.
RoundTripDone ==
    /\ conv_orig.fmt = "sri"
    /\ \/ conv_path = <<"sri2abcd", "abcd2s">>
       \/ conv_path = <<"sri2abcd_alt", "abcd2s_alt">> /\ conv_Z[1] = conv_Z[2]
    /\ \A i \in DOMAIN conv_orig.m : ~IsZero(conv_orig.m[i][3])
    /\ CRe(conv_Z[1])[1] > 0
    /\ CRe(conv_Z[2])[1] > 0

\* C8: converting S to ABCD and back returns the original S matrix at every
\* frequency point, entry by entry, for both pairs of conversions.
C8_RoundTrip == RoundTripDone => conv_cur = conv_orig

\* C8's case: the round trip of a two-point trace holding a non-reciprocal
\* matrix, under complex reference impedances.
C8_Witness ==
    /\ RoundTripDone
    /\ conv_path = <<"sri2abcd", "abcd2s">>
    /\ conv_Z[1][2] # 0
    /\ Len(conv_orig.m) = MaxLen
    /\ \E i \in DOMAIN conv_orig.m : conv_orig.m[i] = SNonRecip
    /\ conv_cur = conv_orig

\* C10: every conversion returns as many matrices as it was given, and the
\* matrix at index i depends on the input at index i only: two inputs that
\* agree at i give outputs that agree at i.
C10_PointwiseSameLength ==
    conv_path # <<>> =>
        /\ HasLen(conv_cur, Len(conv_orig.m))
        /\ HasLen(conv_twin, Len(conv_twin0.m))
        /\ \A i \in DOMAIN conv_orig.m :
              PointOf(conv_orig, i) = PointOf(conv_twin0, i) =>
                  /\ HasPoint(conv_cur, i) /\ HasPoint(conv_twin, i)
                  /\ PointOf(conv_cur, i) = PointOf(conv_twin, i)

\* C10's case: one conversion of a two-point trace and of a twin that differs
\* at the first point only; the outputs differ there and agree at the second.
C10_Witness ==
    /\ Len(conv_path) = 1
    /\ Len(conv_orig.m) = 2
    /\ Len(conv_cur.m) = 2
    /\ PointOf(conv_orig, 1) # PointOf(conv_twin0, 1)
    /\ PointOf(conv_orig, 2) = PointOf(conv_twin0, 2)
    /\ PointOf(conv_cur, 1) # PointOf(conv_twin, 1)
    /\ PointOf(conv_cur, 2) = PointOf(conv_twin, 2)


\* ------------------------------------------------------------------------
\* extract_rlgc: the file names
\*
\* A file name is held as the sequence of its characters.
\* ------------------------------------------------------------------------

Digits == <<"0", "1", "2", "3", "4", "5", "6", "7", "8", "9">>
IsDigit(c) == \E v \in 1..Len(Digits) : Digits[v] = c
DigitValue(c) == (CHOOSE v \in 1..Len(Digits) : Digits[v] = c) - 1

\* str.split(sep), for a separator of one character.
RECURSIVE SplitAcc(_, _, _, _, _)
SplitAcc(str, sep, i, cur, out) ==
    IF i > Len(str) THEN Append(out, cur)
    ELSE IF str[i] = sep THEN SplitAcc(str, sep, i + 1, <<>>, Append(out, cur))
    ELSE SplitAcc(str, sep, i + 1, Append(cur, str[i]), out)

Split(str, sep) == SplitAcc(str, sep, 1, <<>>, <<>>)

\* int(str) of a string without sign, blank or underscore: the value of a
\* non-empty string of digits, ValueError otherwise.
IsIntLiteral(str) == Len(str) > 0 /\ \A i \in 1..Len(str) : IsDigit(str[i])

RECURSIVE IntValue(_, _)
IntValue(str, n) ==
    IF n = 0 THEN 0 ELSE 10 * IntValue(str, n - 1) + DigitValue(str[n])

\* "{0:d}".format(n) for n >= 0.
RECURSIVE FormatInt(_)
FormatInt(n) ==
    IF n < 10 THEN <<Digits[n + 1]>>
    ELSE Append(FormatInt(n \div 10), Digits[(n % 10) + 1])

\* str[0:-2]
DropLastTwo(str) == SubSeq(str, 1, Len(str) - 2)

\* "L{0:d}um_W{1:d}um_{2:s}".format(trace_length_um, trace_width_um, data_final_str)
StructureString(trace_length_um, trace_width_um, data_final_str) ==
    <<"L">> \o FormatInt(trace_length_um) \o <<"u", "m", "_", "W">>
            \o FormatInt(trace_width_um) \o <<"u", "m", "_">> \o data_final_str

\* "rlgc_" + structure_string + ".csv"
RlgcFilename(structure_string) ==
    <<"r", "l", "g", "c", "_">> \o structure_string \o <<".", "c", "s", "v">>

Parsed(raised_, trace_length_um, trace_width_um, structure_string) ==
    [raised |-> raised_, trace_length_um |-> trace_length_um,
     trace_width_um |-> trace_width_um, structure_string |-> structure_string]

\* The head of the loop body, from the split at "_" on: int(filename_arr[0])
\* raises ValueError, filename_arr[1] raises IndexError, int of the width
\* without its last two characters raises ValueError.
ParseFields(filename_arr) ==
    IF ~IsIntLiteral(filename_arr[1]) THEN Parsed("ValueError", 0, 0, <<>>)
    ELSE IF Len(filename_arr) < 2 THEN Parsed("IndexError", 0, 0, <<>>)
    ELSE IF ~IsIntLiteral(DropLastTwo(filename_arr[2])) THEN Parsed("ValueError", 0, 0, <<>>)
    ELSE Parsed("none",
                IntValue(filename_arr[1], Len(filename_arr[1])),
                IntValue(DropLastTwo(filename_arr[2]), Len(filename_arr[2]) - 2),
                StructureString(
                    IntValue(filename_arr[1], Len(filename_arr[1])),
                    IntValue(DropLastTwo(filename_arr[2]), Len(filename_arr[2]) - 2),
                    Split(filename_arr[Len(filename_arr)], ".")[1]))

\* filename.split("\\")[-1].split("_"), then the fields.
LastOf(seq) == seq[Len(seq)]
ParseName(filename) == ParseFields(Split(LastOf(Split(filename, "\\")), "_"))

\* trace_length_um * 1e-6
LengthM(trace_length_um) == Cx(trace_length_um, 0, 1000000)

\* ------------------------------------------------------------------------
\* extract_rlgc: the output files
\* ------------------------------------------------------------------------

\* write_data(freq, data_mat, name_mat, filename): the header row, then one
\* row per entry of freq holding the frequency and data_mat[:,idx].  The cells
\* are held as the numbers that "{0:.8g}" formats.
FreqHeader == "Freq (Hz)"
write_data(freq_, data_mat, name_mat) ==
    [header |-> <<FreqHeader, name_mat>>,
     rows |-> [idx \in 1..Len(freq_) |->
                  <<freq_[idx], [k \in 1..Len(data_mat) |-> data_mat[k][idx]]>>]]

\* write_rlgc(freq, R, L, G, C, filename): one row f, r, l, g, c per entry of
\* freq, no header.
write_rlgc(freq_, R, L, G, C, filename) ==
    [filename |-> filename,
     rows |-> [idx \in 1..Len(freq_) |-> <<freq_[idx], R[idx], L[idx], G[idx], C[idx]>>]]

\* The four calls of write_data at the end of extract_rlgc.
WriteAggregates(freq_, R_mat_, L_mat_, G_mat_, C_mat_, name_vec_) ==
    [name \in {"R.csv", "L.csv", "G.csv", "C.csv"} |->
        CASE name = "R.csv" -> write_data(freq_, R_mat_, name_vec_)
          [] name = "L.csv" -> write_data(freq_, L_mat_, name_vec_)
          [] name = "G.csv" -> write_data(freq_, C_mat_, name_vec_)
          [] name = "C.csv" -> write_data(freq_, G_mat_, name_vec_)]

\* The appends with the structure name put in front of name_vec.
AccumulateNameInFront(acc, ret, parsed) ==
    [freq_mat |-> Append(acc.freq_mat, ret.freq),
     R_mat |-> Append(acc.R_mat, ret.R),
     L_mat |-> Append(acc.L_mat, ret.L),
     G_mat |-> Append(acc.G_mat, ret.G),
     C_mat |-> Append(acc.C_mat, ret.C),
     name_vec |-> <<parsed.structure_string>> \o acc.name_vec,
     length_vec |-> Append(acc.length_vec, parsed.trace_length_um),
     width_vec |-> Append(acc.width_vec, parsed.trace_width_um)]

\* One iteration's eight appends, as the accumulators after them.
Accumulate(acc, ret, parsed) ==
    [freq_mat |-> Append(acc.freq_mat, ret.freq),
     R_mat |-> Append(acc.R_mat, ret.R),
     L_mat |-> Append(acc.L_mat, ret.L),
     G_mat |-> Append(acc.G_mat, ret.G),
     C_mat |-> Append(acc.C_mat, ret.C),
     name_vec |-> Append(acc.name_vec, parsed.structure_string),
     length_vec |-> Append(acc.length_vec, parsed.trace_length_um),
     width_vec |-> Append(acc.width_vec, parsed.trace_width_um)]

Accumulators ==
    [freq_mat |-> freq_mat, R_mat |-> R_mat, L_mat |-> L_mat, G_mat |-> G_mat,
     C_mat |-> C_mat, name_vec |-> name_vec, length_vec |-> length_vec,
     width_vec |-> width_vec]

\* ------------------------------------------------------------------------
\* main and extract_rlgc: a command-line run over the structure files
\* ------------------------------------------------------------------------

MaxFiles == 2

\* File names: two that follow $LENGTH_$WIDTHum_$WHATEVER.s2p (lengths of
\* half a metre and a metre), and one that does not.
NameHalf == <<"5", "0", "0", "0", "0", "0", "_", "2", "u", "m", "_", "a", ".", "s", "2", "p">>
NameOne ==
    <<"1", "0", "0", "0", "0", "0", "0", "_", "4", "u", "m", "_", "x", "_", "b", ".", "s", "2", "p">>
NameOther == <<"p", "a", "d", "_", "L", ".", "s", "2", "p">>

\* The structure files of n frequency points a directory may hold: the
\* file's name, the frequencies it was measured at, and its S matrices.  The
\* second is a quarter-wave line at its first point and a through after it.
StructFiles(n) ==
    { [name |-> NameHalf, f |-> FreqVec(n), s |-> [idx \in 1..n |-> SShunt]],
      [name |-> NameOne, f |-> [idx \in 1..n |-> RInt(2 * idx)],
       s |-> [idx \in 1..n |-> IF idx = 1 THEN SQuarter ELSE SThrough]],
      [name |-> NameOther, f |-> FreqVec(n), s |-> [idx \in 1..n |-> SShunt]] }

FileLists(n) == UNION { [1..k -> StructFiles(n)] : k \in 0..MaxFiles }

\* The calibration structures at every frequency point: a series 50 Ohm pad
\* around a quarter-wave line, and an isolator (whose ABCD matrix is singular).
BatchCalCands ==
    { CalPoint(ASeries50, AQuarter50), <<AIsolator, AIsolator>> }

BatchInit ==
    /\ args_skip_deembed \in BOOLEAN
    /\ method \in CliMethods
    /\ z0_probe \in Z0Cands
    /\ \E n \in 1..MaxLen :
          /\ \E cal \in BatchCalCands :
                /\ net_pad_L = CalNetwork(n, [idx \in 1..n |-> cal[1]])
                /\ net_pad_2L = CalNetwork(n, [idx \in 1..n |-> cal[2]])
          /\ file_list \in FileLists(n)
    /\ file_idx = 0
    /\ freq_mat = <<>>
    /\ R_mat = <<>>
    /\ L_mat = <<>>
    /\ G_mat = <<>>
    /\ C_mat = <<>>
    /\ name_vec = <<>>
    /\ length_vec = <<>>
    /\ width_vec = <<>>
    /\ rlgc_csv = <<>>
    /\ aggregate_csv = <<>>
    /\ extract_ret = <<>>
    /\ skip_deembed = FALSE
    /\ length_m = One
    /\ freq = Unbound
    /\ abcd_pad_inv = Unbound
    /\ abcd_dut = Unbound
    /\ abcd_pad = Unbound
    /\ Sri_pad = Unbound
    /\ Sdb_pad = Unbound
    /\ Sdeg_pad = Unbound
    /\ abcd_dut_deembedded = Unbound
    /\ Sri_dut = Unbound
    /\ Sdb_dut = Unbound
    /\ Sdeg_dut = Unbound
    /\ rlgc = NoRlgc
    /\ called = NoCall
    /\ returned = NoRlgc

\* extract_rlgc up to its loop: the glob, get_pad_abcd (an exception of it
\* ends the run) and the empty accumulators.
ExtractRlgcStart ==
    /\ pc = "extract_rlgc"
    /\ \E r \in {get_pad_abcd(net_pad_L, net_pad_2L, z0_probe)} :
          IF r.raised # "none"
          THEN /\ error' = r.raised
               /\ pc' = "raised"
               /\ UNCHANGED <<freq, abcd_pad_inv, abcd_pad, Sri_pad, Sdb_pad, Sdeg_pad>>
          ELSE /\ freq' = r.freq
               /\ abcd_pad' = r.abcd_pad
               /\ abcd_pad_inv' = r.abcd_pad_inv
               /\ Sri_pad' = r.Sri_pad
               /\ Sdb_pad' = r.Sdb_pad
               /\ Sdeg_pad' = r.Sdeg_pad
               /\ pc' = "loop"
               /\ UNCHANGED error
    /\ UNCHANGED <<convVars, batchVars, net_pad_L, net_pad_2L, length_m, abcd_dut, z0_probe,
                   method, skip_deembed, localVars>>

\* The loop body up to the call of extract_rlcg_from_measurement: the file
\* name is parsed, the DUT network is read and converted, and the call binds
\* freq, length_m, abcd_pad_inv, abcd_dut, z0_probe and method; skip_deembed
\* is not passed and takes its default.
LoopHead ==
    /\ pc = "loop"
    /\ file_idx < Len(file_list)
    /\ file_idx' = file_idx + 1
    /\ \E parsed \in {ParseName(file_list[file_idx'].name)} :
          IF parsed.raised # "none"
          THEN /\ error' = parsed.raised
               /\ pc' = "raised"
               /\ UNCHANGED <<length_m, abcd_dut>>
          ELSE /\ length_m' = LengthM(parsed.trace_length_um)
               /\ abcd_dut' = sdb2abcd(NetSdb(file_list[file_idx'].s),
                                       NetSdeg(file_list[file_idx'].s))
               /\ pc' = "entry"
               /\ UNCHANGED error
    /\ skip_deembed' = FALSE
    /\ abcd_dut_deembedded' = Unbound
    /\ Sri_dut' = Unbound
    /\ Sdb_dut' = Unbound
    /\ Sdeg_dut' = Unbound
    /\ rlgc' = NoRlgc
    /\ called' = NoCall
    /\ returned' = NoRlgc
    /\ UNCHANGED <<convVars, padVars, freq, abcd_pad_inv, z0_probe, method, args_skip_deembed,
                   file_list, accVars, rlgc_csv, aggregate_csv, extract_ret>>

\* The rest of the loop body, once extract_rlcg_from_measurement has
\* returned: freq is rebound, the eight lists are appended to and the
\* structure's file is written (the plots change nothing that is read later).
LoopAppend ==
    /\ pc = "done"
    /\ freq' = returned.freq
    /\ \E parsed \in {ParseName(file_list[file_idx].name)} :
          /\ \E acc \in {Accumulate(Accumulators, returned, parsed)} :
                /\ freq_mat' = acc.freq_mat
                /\ R_mat' = acc.R_mat
                /\ L_mat' = acc.L_mat
                /\ G_mat' = acc.G_mat
                /\ C_mat' = acc.C_mat
                /\ name_vec' = acc.name_vec
                /\ length_vec' = acc.length_vec
                /\ width_vec' = acc.width_vec
          /\ rlgc_csv' = Append(rlgc_csv,
                                write_rlgc(returned.freq, returned.R, returned.L, returned.G,
                                           returned.C, RlgcFilename(parsed.structure_string)))
    /\ pc' = "loop"
    /\ UNCHANGED <<error, convVars, padVars, length_m, abcd_pad_inv, abcd_dut, z0_probe, method,
                   skip_deembed, localVars, args_skip_deembed, file_list, file_idx,
                   aggregate_csv, extract_ret>>

\* After the loop: freq_mat[0] raises IndexError when no file was processed;
\* otherwise the four aggregate files are written and the eight lists are
\* returned.
LoopExit ==
    /\ pc = "loop"
    /\ file_idx = Len(file_list)
    /\ IF freq_mat = <<>>
       THEN /\ error' = "IndexError"
            /\ pc' = "raised"
            /\ UNCHANGED <<aggregate_csv, extract_ret>>
       ELSE /\ aggregate_csv' = WriteAggregates(freq_mat[1], R_mat, L_mat, G_mat, C_mat, name_vec)
            /\ extract_ret' = <<freq_mat, R_mat, L_mat, G_mat, C_mat, name_vec, length_vec,
                                width_vec>>
            /\ pc' = "main"
            /\ UNCHANGED error
    /\ UNCHANGED <<convVars, padVars, argVars, localVars, args_skip_deembed, file_list,
                   file_idx, accVars, rlgc_csv>>

\* main binds the returned tuple to (freq_mat, R_mat, L_mat, G_mat, C_mat):
\* a tuple of another length raises ValueError.
MainTargets == 5
MainUnpack ==
    /\ pc = "main"
    /\ IF Len(extract_ret) = MainTargets
       THEN /\ pc' = "exit"
            /\ UNCHANGED error
       ELSE /\ error' = "ValueError"
            /\ pc' = "raised"
    /\ UNCHANGED <<convVars, padVars, argVars, localVars, batchVars>>

InitBatch == pc = "extract_rlgc" /\ error = "none" /\ BatchInit /\ ConvIdle

NextBatch ==
    \/ ExtractRlgcStart
    \/ LoopHead
    \/ Deembed
    \/ CallDistributed
    \/ CallLumped
    \/ CallDistributedAbcd
    \/ NoBranch
    \/ Return
    \/ LoopAppend
    \/ LoopExit
    \/ MainUnpack

SpecBatch == InitBatch /\ [][NextBatch]_vars


\* ------------------------------------------------------------------------
\* Claims about a batch run (checked under SpecBatch)
\* ------------------------------------------------------------------------

\* Column k of an aggregate file, without the frequency column.
ColumnOf(file, k) == [idx \in 1..Len(file.rows) |-> file.rows[idx][2][k]]

\* The file holds the vectors of data_mat, one column per structure, under
\* the structure names in the order the structures were processed.
HoldsVectors(file, data_mat) ==
    /\ file.header = <<FreqHeader, name_vec>>
    /\ \A k \in 1..Len(name_vec) : ColumnOf(file, k) = data_mat[k]

AggregatesWritten == aggregate_csv # <<>>

\* C11: after a batch run each aggregate file holds the parameter it is named
\* for: R.csv the R vectors of all structures, L.csv the L vectors, G.csv the
\* G vectors and C.csv the C vectors, under the structure names in processing
\* order.
C11_AggregateHoldsItsParameter ==
    AggregatesWritten =>
        /\ HoldsVectors(aggregate_csv["R.csv"], R_mat)
        /\ HoldsVectors(aggregate_csv["L.csv"], L_mat)
        /\ HoldsVectors(aggregate_csv["G.csv"], G_mat)
        /\ HoldsVectors(aggregate_csv["C.csv"], C_mat)


\* extract_rlcg_from_measurement is running or has just returned.
InExtraction == pc \in {"entry", "dispatch", "return", "done"}

\* get_pad_abcd ended the run with an exception.
PadFilesEndedRun == pc = "raised" /\ file_idx = 0 /\ file_list # <<>>

\* C12: run with --skip_deembed, every structure is extracted with
\* skip_deembed true, and nothing returned or written depends on the content
\* of the pad L/2L files: they cannot end the run, and the frequencies
\* recorded for a structure are those of its own file.
C12_SkipDeembedFlagHonoured ==
    args_skip_deembed =>
        /\ InExtraction => skip_deembed
        /\ ~PadFilesEndedRun
        /\ \A k \in 1..Len(freq_mat) : freq_mat[k] = file_list[k].f


\* The number of files whose iteration of the loop has ended normally: the
\* file taken last is still in its iteration, or has ended the run, unless
\* control is back at the head of the loop or past it.
FilesProcessed ==
    IF pc \in {"loop", "main", "exit"} \/ extract_ret # <<>> THEN file_idx
    ELSE IF file_idx = 0 THEN 0
    ELSE file_idx - 1

\* abcd_dut of a structure file.
DutOf(file) == sdb2abcd(NetSdb(file.s), NetSdeg(file.s))

\* What extract_rlcg_from_measurement returns for a structure file when it
\* returns: r is what the de-embedding step returned.
ExtractedWith(file, r, length_m_, freq_) ==
    CASE method = "distributed" ->
            distributed_rlgc_from_sdb(length_m_, freq_, r.Sdb_dut, r.Sdeg_dut, z0_probe)
      [] method = "lumped" ->
            lumped_rlgc_from_Network([f |-> freq_, s |-> r.Sri_dut, z0 |-> z0_probe], z0_probe)
      [] method = "distributed_abcd" ->
            distributed_rlgc_from_abcd(length_m_, freq_, DutOf(file), z0_probe)

ExtractedFrom(file) ==
    ExtractedWith(file,
                  deembed_pads_from_measurement(abcd_pad_inv, DutOf(file), z0_probe),
                  LengthM(ParseName(file.name).trace_length_um),
                  net_pad_L.f)

\* Entry k of every accumulator is the one of a file parsed as parsed and
\* extracted as out.
EntryIs(k, parsed, out) ==
    /\ name_vec[k] = parsed.structure_string
    /\ length_vec[k] = parsed.trace_length_um
    /\ width_vec[k] = parsed.trace_width_um
    /\ freq_mat[k] = out.freq
    /\ R_mat[k] = out.R
    /\ L_mat[k] = out.L
    /\ G_mat[k] = out.G
    /\ C_mat[k] = out.C

\* C13: in extract_rlgc the eight accumulators always have the same length,
\* the number of files processed so far, and after each iteration of the loop
\* entry k of each belongs to the k-th file of the list; a structure whose
\* parsing or extraction fails contributes an entry to none of them.
C13_AccumulatorsAligned ==
    /\ Len(freq_mat) = FilesProcessed
    /\ Len(R_mat) = FilesProcessed
    /\ Len(L_mat) = FilesProcessed
    /\ Len(G_mat) = FilesProcessed
    /\ Len(C_mat) = FilesProcessed
    /\ Len(name_vec) = FilesProcessed
    /\ Len(length_vec) = FilesProcessed
    /\ Len(width_vec) = FilesProcessed
    /\ pc = "loop" =>
          \A k \in 1..FilesProcessed :
             EntryIs(k, ParseName(file_list[k].name), ExtractedFrom(file_list[k]))

\* A first structure is accumulated and the extraction of the second fails.
C13_Witness ==
    /\ pc = "raised"
    /\ error = "LinAlgError"
    /\ file_idx = 2
    /\ Len(name_vec) = 1
    /\ Len(R_mat) = 1


\* The ABCD trace of a network read from a file whose S matrices are s, with
\* the reference impedance z0 at both ports.
AbcdAt(s, z0) == sri2abcd(sdb2sri(NetSdb(s), NetSdeg(s)), z0, z0)

\* The C entries of the ABCD trace converted from (Sdb, Sdeg) at z0.
CEntriesAt(Sdb, Sdeg, z0) ==
    [idx \in 1..Len(Sdb) |-> sri2abcd(sdb2sri(Sdb, Sdeg), z0, z0)[idx][3]]

PadExtracted == abcd_pad # Unbound

SdbExtractorReturned ==
    called.fn = "distributed_rlgc_from_sdb" /\ called.raised = "none"

\* C14: every S-to-ABCD conversion of the pipeline normalises to z0_probe:
\* those of the L and 2L calibration networks in get_pad_abcd, that of the
\* DUT network in extract_rlgc, and the one inside distributed_rlgc_from_sdb.
C14_ConversionsUseProbeImpedance ==
    /\ PadExtracted =>
          /\ CalAbcd(net_pad_L) = AbcdAt(net_pad_L.s, z0_probe)
          /\ CalAbcd(net_pad_2L) = AbcdAt(net_pad_2L.s, z0_probe)
    /\ InExtraction => abcd_dut = AbcdAt(file_list[file_idx].s, z0_probe)
    /\ SdbExtractorReturned =>
          called.out.b_vec = CEntriesAt(called.args[3], called.args[4], z0_probe)


\* extract_rlgc has processed at least one structure file and has returned.
ExtractRlgcReturned == extract_ret # <<>> /\ Len(extract_ret[1]) >= 1

\* C15: a command-line run in which extract_rlgc processes at least one
\* structure file and returns ends normally: main raises nothing after
\* extract_rlgc has returned its result tuple.
C15_MainEndsNormally ==
    ExtractRlgcReturned => pc # "raised" /\ error = "none"

====
